---- MODULE Spec2Model ----
(***************************************************************************)
(* The bytecode protection pipeline of electron-vite's bytecodePlugin, as  *)
(* the guide page "Source Code Protection" documents it                    *)
(* (packages/en-US/.vitepress/config.ts, lines 95-266).  The repository    *)
(* holds the guide, not the plugin: every definition below is translated   *)
(* from a sentence or a code sample of the guide, and where the guide      *)
(* leaves a choice open the model keeps every outcome.                     *)
(*                                                                         *)
(*   - parse the bundles and determine whether to compile   (line 138)     *)
(*   - compile the bundles into .jsc files                   (line 139)     *)
(*   - generate a bytecode loader                            (line 140)     *)
(*   - chunkAlias selects the chunks to compile         (lines 179-183)     *)
(*   - removeBundleJS removes the compiled bundle files (lines 192-197)     *)
(***************************************************************************)
EXTENDS Naturals, Sequences, FiniteSets

\* ------------------------------------------------------------------ names
\* Chunk names are strings; a string is a sequence of characters so that
\* String.prototype.includes can be computed.
index  == <<"i", "n", "d", "e", "x">>
foo    == <<"f", "o", "o">>
bar    == <<"b", "a", "r">>
foobar == <<"f", "o", "o", "b", "a", "r">>
barfoo == <<"b", "a", "r", "f", "o", "o">>

\* The chunk names and aliases the runs draw from: the guide's own names
\* (index.ts, foo.ts, chunk 'foo'), and names that contain 'foo' as a prefix
\* and as a suffix.
ChunkNames == {index, foo, bar, foobar, barfoo}

\* At most this many chunks in one build output.
MaxChunks == 3
\* At most this many aliases in chunkAlias (string | string[]).
MaxAliases == 2

\* id.includes(alias), line 225.
Includes(id, alias) ==
    \E i \in 1..(Len(id) + 1) :
        /\ i + Len(alias) - 1 <= Len(id)
        /\ SubSeq(id, i, i + Len(alias) - 1) = alias

\* id.startsWith(alias).
StartsWith(id, alias) ==
    /\ Len(alias) <= Len(id)
    /\ SubSeq(id, 1, Len(alias)) = alias

\* removeBundleJS, "default: true" (line 195).
DefaultRemoveBundleJS == TRUE

\* chunkAlias left out: bytecodePlugin() (lines 160, 163).
DefaultChunkAlias == {}

\* How an alias is "associated" with a bundle (line 183) is not spelled out;
\* the example (lines 220, 226) pairs alias 'foo' with the chunk named 'foo'.
\* Each reading that agrees with the example is explored.
Associations == {"equal", "startsWith", "includes"}

VARIABLES
    chunkAlias,      \* option chunkAlias, as a set of names
    removeBundleJS,  \* option removeBundleJS
    association,     \* the reading of "associated" in force
    chunks,          \* the chunks of the build output
    state,           \* per chunk: "bundled", "plain", "selected", "compiled"
    js,              \* chunks whose bundle .js file is on disk
    jsc,             \* chunks whose .jsc file is on disk
    loader,          \* the bytecode loader has been generated
    phase            \* "build", "loaded", "done"

vars == <<chunkAlias, removeBundleJS, association, chunks, state, js, jsc,
          loader, phase>>

config == <<chunkAlias, removeBundleJS, association, chunks>>

\* ------------------------------------------------------------- selection
Associated(alias, name) ==
    CASE association = "equal"      -> name = alias
      [] association = "startsWith" -> StartsWith(name, alias)
      [] association = "includes"   -> Includes(name, alias)

\* Mutant: the plugin compiles a chunk only when an alias names it, also
\* when no alias is configured.
isBytecodeChunkAliasOnly(name) ==
    \E alias \in chunkAlias : Associated(alias, name)

\* Mutant: the plugin compiles every chunk whatever chunkAlias says.
isBytecodeChunkAll(name) ==
    name = name

\* "determines whether to compile to bytecode" (line 138).  bytecodePlugin()
\* without options enables the protection (lines 153-169); chunkAlias
\* narrows it: "only protect src/main/foo.ts" (lines 199-220).
isBytecodeChunk(name) ==
    \/ chunkAlias = DefaultChunkAlias
    \/ \E alias \in chunkAlias : Associated(alias, name)

\* --------------------------------------------------------------- actions
Init ==
    /\ chunkAlias \in {A \in SUBSET ChunkNames : Cardinality(A) <= MaxAliases}
    /\ removeBundleJS \in {DefaultRemoveBundleJS, ~DefaultRemoveBundleJS}
    /\ association \in Associations
    /\ chunks \in {C \in SUBSET ChunkNames : Cardinality(C) <= MaxChunks}
    /\ state = [c \in chunks |-> "bundled"]
    /\ js = chunks
    /\ jsc = {}
    /\ loader = FALSE
    /\ phase = "build"

\* Line 138: parse a bundle and determine whether to compile it.
Determine(c) ==
    /\ phase = "build"
    /\ state[c] = "bundled"
    /\ state' = [state EXCEPT
                    ![c] = IF isBytecodeChunk(c) THEN "selected" ELSE "plain"]
    /\ UNCHANGED <<config, js, jsc, loader, phase>>

\* Line 139: the Electron process compiles the bundle into a .jsc file.
Compile(c) ==
    /\ phase = "build"
    /\ state[c] = "selected"
    /\ jsc' = jsc \cup {c}
    /\ state' = [state EXCEPT ![c] = "compiled"]
    /\ UNCHANGED <<config, js, loader, phase>>

\* Mutant: the loader step runs and writes nothing.
GenerateLoaderNothing ==
    /\ phase = "build"
    /\ \A c \in chunks : state[c] \in {"plain", "compiled"}
    /\ loader' = FALSE
    /\ phase' = "loaded"
    /\ UNCHANGED <<config, state, js, jsc>>

\* Line 140: generate a bytecode loader, after the bundles are compiled.
\* Whether a loader is written when nothing was compiled is left open.
GenerateLoader ==
    /\ phase = "build"
    /\ \A c \in chunks : state[c] \in {"plain", "compiled"}
    /\ \/ loader' = TRUE
       \/ jsc = {} /\ loader' = FALSE
    /\ phase' = "loaded"
    /\ UNCHANGED <<config, state, js, jsc>>

\* Mutant: the option is read inverted.
RemoveBundleInverted(c) ==
    /\ ~removeBundleJS
    /\ phase # "done"
    /\ c \in jsc
    /\ c \in js
    /\ js' = js \ {c}
    /\ UNCHANGED <<config, state, jsc, loader, phase>>

\* Lines 192-197: unless removeBundleJS is false, the bundle files "which
\* compiled as bytecode files" are removed.  The guide does not order the
\* removal against the loader step: it may come before or after it.
RemoveBundle(c) ==
    /\ removeBundleJS
    /\ phase # "done"
    /\ c \in jsc
    /\ c \in js
    /\ js' = js \ {c}
    /\ UNCHANGED <<config, state, jsc, loader, phase>>

\* The build ends when the loader is generated and every removal is made.
Finish ==
    /\ phase = "loaded"
    /\ removeBundleJS => js \cap jsc = {}
    /\ phase' = "done"
    /\ UNCHANGED <<config, state, js, jsc, loader>>

Next ==
    \/ \E c \in chunks : Determine(c)
    \/ \E c \in chunks : Compile(c)
    \/ GenerateLoader
    \/ \E c \in chunks : RemoveBundle(c)
    \/ Finish

Spec == Init /\ [][Next]_vars

\* ------------------------------------------------------------ vocabulary
\* The loader loads the bytecode modules (line 140): a chunk has a loader
\* when the loader is generated and the chunk has a .jsc file.
LoaderFor(c) == loader /\ c \in jsc

\* The chunk is as the bundler left it: bundle on disk, nothing next to it.
Untouched(c) == c \in js /\ c \notin jsc /\ ~LoaderFor(c)

MatchesNoAlias(c) == \A alias \in chunkAlias : ~Includes(c, alias)

TypeOK ==
    /\ chunkAlias \subseteq ChunkNames
    /\ removeBundleJS \in BOOLEAN
    /\ association \in Associations
    /\ chunks \subseteq ChunkNames
    /\ state \in [chunks -> {"bundled", "plain", "selected", "compiled"}]
    /\ js \subseteq chunks
    /\ jsc \subseteq chunks
    /\ loader \in BOOLEAN
    /\ phase \in {"build", "loaded", "done"}

C3_BundleKeptIffRetention ==
    phase = "done" =>
        \A c \in chunks :
            isBytecodeChunk(c) =>
                /\ c \in js <=> ~removeBundleJS
                /\ removeBundleJS = DefaultRemoveBundleJS => c \notin js

\* A finished build with removeBundleJS: false: the bundle file sits next
\* to its .jsc file and the loader.
C3_BundleKept ==
    /\ phase = "done"
    /\ ~removeBundleJS
    /\ \E c \in chunks :
          isBytecodeChunk(c) /\ c \in js /\ c \in jsc /\ LoaderFor(c)

====
